---- MODULE Spec2Model ----
(***************************************************************************)
(* Model of the paged, prefetching cache of iview (cache.go):              *)
(* CachedSlicePaged, its coordinator goroutine (startPreFetcher), the      *)
(* resident-page set (pageCache), the in-flight tracker (loader) and the   *)
(* page workers (loadPage / unloadPage / mapPageItems).                    *)
(*                                                                         *)
(* Items are the indices 0..n-1 and pages the numbers 0..numPages-1, as in *)
(* the Go code. Sequences are 1-based, so a Go slice index k is k+1 here.  *)
(***************************************************************************)
EXTENDS Integers, Sequences, FiniteSets, Bags, TLC

\* ---- bounds of the model ----
NumItems == 3        \* len(items) in Spec
PageSz == 1          \* pageSize in Spec
NumCallers == 2      \* concurrent consumers calling At
MaxCalls == 2        \* At calls started in one behaviour of Spec
MaxNeg == 1          \* the most negative index passed to At is -MaxNeg
LiveItems == 2       \* len(items) in SpecLive
LivePageSz == 1      \* pageSize in SpecLive
LiveCalls == 2       \* At calls started in one behaviour of SpecLive
OneItems == 6        \* len(items) in SpecOne and SpecSolo (pageSize is 1 there)
OneCalls == 3        \* At calls started in one behaviour of SpecOne
SoloCalls == 5       \* At calls started in one behaviour of SpecSolo
ScanItems == 9       \* len(items) is 1..ScanItems in SpecScan
ScanPageSz == 2      \* pageSize is 1..ScanPageSz in SpecScan
AddItems == 7        \* len(items) in SpecAdd (pageSize is 1 there)
EvictPageSz == 4     \* pageSize in SpecEvict
FailItems == 3       \* len(items) in SpecFail
FailPageSz == 2      \* pageSize in SpecFail
FailCalls == 2       \* At calls started in one behaviour of SpecFail
LagCalls == 4        \* At calls started in one behaviour of SpecLag
StopItems == 3       \* len(items) in SpecStop
StopPageSz == 1      \* pageSize in SpecStop
StopCalls == 2       \* At calls started in one behaviour of SpecStop
TrackItems == 3      \* len(items) in SpecTracker, one page per item
GetItems == 4        \* len(items) in SpecGet
GetPageSz == 2       \* pageSize in SpecGet
PagesItems == 12     \* len(items) is 1..PagesItems in SpecPages
PagesPageSz == 2     \* pageSize is 1..PagesPageSz in SpecPages

\* ---- program constants ----
cacheSize == 5
NoChan == 0          \* a nil done channel (prefetch request)

Callers == 1..NumCallers

VARIABLES
    n,          \* len(c.items)
    pageSize,   \* c.pageSize
    fetchC,     \* the request channel: "open" or "closed" (c.fetchC is nil then)
    coord,      \* the coordinator goroutine: "run", "exit", "panic", "blocked"
    pages,      \* cache.pages of the coordinator
    loading,    \* inflight.loading of the coordinator
    workers,    \* bag of running page workers (load and unload goroutines)
    pc,         \* per caller: position inside At
    pos,        \* per caller: the argument of its current or last At call
    res,        \* per caller: result of its last At call
    hit,        \* per caller: its call began in a quiescent state with its page resident
    doneC,      \* per caller: contents of the done channel of its blocking request
    freePc,     \* position inside Free: "none", "stopped", "returned"
    freeG,      \* per item: the goroutine Free spawned for it
    freeUnl,    \* per item: number of Unload calls made by Free's goroutines
    last,       \* per item: the most recent operation started on it
    loads,      \* per item: number of Load invocations
    pageLoads,  \* per page: number of load workers started
    calls,      \* number of At calls started
    unloads,    \* per item: number of Unload invocations by unload workers
    evicts,     \* per page: number of times add reported the page as evicted
    errs,       \* the items whose last Load returned an error
    get,        \* the running Get iterator: cursor, limit, yielded items, position
    op          \* the most recent call made on the tracker directly: name and page

vars == <<n, pageSize, fetchC, coord, pages, loading, workers, pc, pos, res, hit,
          doneC, freePc, freeG, freeUnl, last, loads, pageLoads, calls, unloads, evicts, errs, get,
          op>>

coordVars == <<coord, pages, loading>>
freeVars == <<freePc, freeG, freeUnl>>
callerVars == <<pc, pos, res, hit>>
itemVars == <<last, loads, unloads, errs>>

\* ---- pure helpers ----

\* Go's integer division truncates toward zero
TruncDiv(a, b) == IF a >= 0 THEN a \div b ELSE -((-a) \div b)

\* Go's remainder has the sign of the dividend
TruncMod(a, b) == a - b * TruncDiv(a, b)

Min2(a, b) == IF a < b THEN a ELSE b

intCeil(a, b) == IF TruncMod(a, b) > 0 THEN TruncDiv(a, b) + 1 ELSE TruncDiv(a, b)

numPages == intCeil(n, pageSize)

Items == 0..(n - 1)

Pages == 0..(numPages - 1)

\* a range that always has pageSize indices
mapPageItemsWhole(p) == (p * pageSize)..(p * pageSize + pageSize - 1)

\* the index range mapPageItems processes for page p
mapPageItems(p) == (p * pageSize)..(Min2(n, p * pageSize + pageSize) - 1)

RECURSIVE SortInsert(_, _)
SortInsert(s, x) ==
    IF s = <<>> THEN <<x>>
    ELSE IF x <= Head(s) THEN <<x>> \o s
    ELSE <<Head(s)>> \o SortInsert(Tail(s), x)

RECURSIVE sortPages(_)
sortPages(s) == IF s = <<>> THEN <<>> ELSE SortInsert(sortPages(Tail(s)), Head(s))

\* slices.Index: the first position of x in s, 0 when absent
Index(s, x) ==
    IF \E k \in 1..Len(s) : s[k] = x
    THEN CHOOSE k \in 1..Len(s) : s[k] = x /\ \A j \in 1..(k - 1) : s[j] # x
    ELSE 0

Range(s) == { s[k] : k \in 1..Len(s) }

\* ---- pageCache ----

\* contains that finds no page
containsNone(pgs, page) == page \in {}

\* pageCache.contains
contains(pgs, page) == \E k \in 1..Len(pgs) : pgs[k] = page

\* add that never evicts
addNoEvict(pgs, page) ==
    IF contains(pgs, page) THEN [pages |-> pgs, ep |-> 0, evicted |-> FALSE]
    ELSE [pages |-> Append(pgs, page), ep |-> 0, evicted |-> FALSE]

\* add with the comparison of the two halves inverted
addFlipped(pgs, page) ==
    IF contains(pgs, page) THEN [pages |-> pgs, ep |-> 0, evicted |-> FALSE]
    ELSE IF Len(pgs) < cacheSize
    THEN [pages |-> Append(pgs, page), ep |-> 0, evicted |-> FALSE]
    ELSE LET s == sortPages(Append(pgs, page))
             i == Index(s, page) - 1
         IN IF i < cacheSize - i - 1
            THEN [pages |-> SubSeq(Tail(s) \o <<s[Len(s)]>>, 1, cacheSize),
                  ep |-> s[1], evicted |-> TRUE]
            ELSE [pages |-> SubSeq(s, 1, cacheSize),
                  ep |-> s[cacheSize], evicted |-> TRUE]

\* add that reports the smallest page in the upper-half case without the copy
\* that shifts the remainder down
addNoShift(pgs, page) ==
    IF contains(pgs, page) THEN [pages |-> pgs, ep |-> 0, evicted |-> FALSE]
    ELSE IF Len(pgs) < cacheSize
    THEN [pages |-> Append(pgs, page), ep |-> 0, evicted |-> FALSE]
    ELSE LET s == sortPages(Append(pgs, page))
             i == Index(s, page) - 1
         IN IF i >= cacheSize - i - 1
            THEN [pages |-> SubSeq(s, 1, cacheSize), ep |-> s[1], evicted |-> TRUE]
            ELSE [pages |-> SubSeq(s, 1, cacheSize),
                  ep |-> s[cacheSize], evicted |-> TRUE]

\* add that drops the smallest page in the upper-half case and reports no
\* eviction
addSilent(pgs, page) ==
    IF contains(pgs, page) THEN [pages |-> pgs, ep |-> 0, evicted |-> FALSE]
    ELSE IF Len(pgs) < cacheSize
    THEN [pages |-> Append(pgs, page), ep |-> 0, evicted |-> FALSE]
    ELSE LET s == sortPages(Append(pgs, page))
             i == Index(s, page) - 1
         IN IF i >= cacheSize - i - 1
            THEN [pages |-> SubSeq(Tail(s) \o <<s[Len(s)]>>, 1, cacheSize),
                  ep |-> 0, evicted |-> FALSE]
            ELSE [pages |-> SubSeq(s, 1, cacheSize),
                  ep |-> s[cacheSize], evicted |-> TRUE]

\* pageCache.add: the new pages, the evicted page and whether a page was evicted
add(pgs, page) ==
    IF contains(pgs, page) THEN [pages |-> pgs, ep |-> 0, evicted |-> FALSE]
    ELSE IF Len(pgs) < cacheSize
    THEN [pages |-> Append(pgs, page), ep |-> 0, evicted |-> FALSE]
    ELSE LET s == sortPages(Append(pgs, page))
             i == Index(s, page) - 1
         IN IF i >= cacheSize - i - 1
            THEN [pages |-> SubSeq(Tail(s) \o <<s[Len(s)]>>, 1, cacheSize),
                  ep |-> s[1], evicted |-> TRUE]
            ELSE [pages |-> SubSeq(s, 1, cacheSize),
                  ep |-> s[cacheSize], evicted |-> TRUE]

\* ---- loader ----

\* slices.IndexFunc(l.loading, this.p == page), 0 when absent
loadingIndex(l, page) ==
    IF \E k \in 1..Len(l) : l[k].p = page
    THEN CHOOSE k \in 1..Len(l) : l[k].p = page /\ \A j \in 1..(k - 1) : l[j].p # page
    ELSE 0

isActive(l, page) == \E k \in 1..Len(l) : l[k].p = page

\* a tracker that records a done channel twice
appendTwice(s, c) == IF c # NoChan THEN Append(Append(s, c), c) ELSE s

\* appendNotNil: the done channel of a prefetch request is nil and not recorded
appendNotNil(s, c) == IF c # NoChan THEN Append(s, c) ELSE s

\* track without the search for an existing entry
trackNoDedup(l, req) ==
    [loading |-> Append(l, [p |-> req.page, reply |-> appendNotNil(<<>>, req.done)]),
     isNew |-> TRUE]

\* track that forgets the done channel of a request that joins an entry
trackNoJoin(l, req) ==
    LET i == loadingIndex(l, req.page)
    IN IF i # 0
       THEN [loading |-> l, isNew |-> FALSE]
       ELSE [loading |-> Append(l, [p |-> req.page, reply |-> appendNotNil(<<>>, req.done)]),
             isNew |-> TRUE]

\* track that starts a load worker without recording the page
trackNoEntry(l, req) ==
    LET i == loadingIndex(l, req.page)
    IN IF i # 0
       THEN [loading |-> [l EXCEPT ![i].reply = appendNotNil(l[i].reply, req.done)],
             isNew |-> FALSE]
       ELSE [loading |-> l, isNew |-> TRUE]

\* loader.track: the new loading list and whether the request is for a new page
track(l, req) ==
    LET i == loadingIndex(l, req.page)
    IN IF i # 0
       THEN [loading |-> [l EXCEPT ![i].reply = appendNotNil(l[i].reply, req.done)],
             isNew |-> FALSE]
       ELSE [loading |-> Append(l, [p |-> req.page, reply |-> appendNotNil(<<>>, req.done)]),
             isNew |-> TRUE]

\* done that removes the entry and notifies nobody
doneNoNotify(l, page) ==
    LET i == loadingIndex(l, page)
    IN IF i > 0
       THEN [loading |-> SubSeq([l EXCEPT ![i] = l[Len(l)]], 1, Len(l) - 1),
             notify |-> <<>>]
       ELSE [loading |-> l, notify |-> <<>>]

\* done that notifies the requesters and keeps the entry
doneKeepEntry(l, page) ==
    LET i == loadingIndex(l, page)
    IN IF i > 0
       THEN [loading |-> [l EXCEPT ![i].reply = <<>>], notify |-> l[i].reply]
       ELSE [loading |-> l, notify |-> <<>>]

\* loader.done: the new loading list and the channels that are sent the page
done(l, page) ==
    LET i == loadingIndex(l, page)
    IN IF i > 0
       THEN [loading |-> SubSeq([l EXCEPT ![i] = l[Len(l)]], 1, Len(l) - 1),
             notify |-> l[i].reply]
       ELSE [loading |-> l, notify |-> <<>>]

\* ---- channels and workers ----

\* sending page to the done channels of rs in order; a done channel has
\* capacity 1, a send to a full one blocks the coordinator
RECURSIVE SendAll(_, _, _)
SendAll(dc, rs, page) ==
    IF rs = <<>> THEN [dc |-> dc, blocked |-> FALSE]
    ELSE IF Len(dc[Head(rs)]) >= 1 THEN [dc |-> dc, blocked |-> TRUE]
    ELSE SendAll([dc EXCEPT ![Head(rs)] = Append(@, page)], Tail(rs), page)

Worker(kind, p) == [kind |-> kind, page |-> p, todo |-> mapPageItems(p), run |-> {}]

loadPage(p) == Worker("load", p)

\* an unload worker that leaves out the first item of the page
unloadPageShort(p) == [Worker("unload", p) EXCEPT !.todo = @ \ {p * pageSize}]

\* unloadPage: Unload on every item of page p
unloadPage(p) == Worker("unload", p)

WorkerSet == BagToSet(workers)

LoadWorkers(p) == { w \in WorkerSet : w.kind = "load" /\ w.page = p }

Crashed == coord = "panic" \/ \E c \in Callers : pc[c] = "panic"

\* ---- the facade: At ----

PageOf(i) == TruncDiv(i, pageSize)

\* a range test that lets the page numPages through
ValidPageOpen(p) == 0 <= p /\ p <= numPages

\* the test 0 <= p && p < c.numPages() of fetchPageNow and fetchPagesLater
ValidPage(p) == 0 <= p /\ p < numPages

\* prefetching the pages two away instead of the neighbours
StagePageWide(st, i) ==
    CASE st = "later1" -> PageOf(i) - 2
      [] st = "later2" -> PageOf(i) + 2
      [] st = "now" -> PageOf(i)

\* the next request At sends from stage st on, for an access to index i:
\* fetchPagesLater(page-1, page+1) skips out-of-range pages, so does fetchPageNow
StagePage(st, i) ==
    CASE st = "later1" -> PageOf(i) - 1
      [] st = "later2" -> PageOf(i) + 1
      [] st = "now" -> PageOf(i)

NextStage(st, i) ==
    LET order == <<"later1", "later2", "now">>
        from == CHOOSE k \in 1..3 : order[k] = st
        ok == { k \in from..3 : ValidPage(StagePage(order[k], i)) }
    IN IF ok = {} THEN "index"
       ELSE order[CHOOSE k \in ok : \A j \in ok : k <= j]

StageAfter(st, i) ==
    CASE st = "later1" -> NextStage("later2", i)
      [] st = "later2" -> NextStage("now", i)

NotFound == [found |-> FALSE, item |-> -1]
Found(i) == [found |-> TRUE, item |-> i]
NoRes == [found |-> FALSE, item |-> -2]

\* the final c.items[pos] of At: a negative index panics
AtIndex(c, i) ==
    IF i < 0
    THEN /\ pc' = [pc EXCEPT ![c] = "panic"]
         /\ res' = res
    ELSE /\ pc' = [pc EXCEPT ![c] = "idle"]
         /\ res' = [res EXCEPT ![c] = Found(i)]

Quiescent == /\ \A c \in Callers : pc[c] = "idle"
             /\ BagToSet(workers) = {}

\* a bounds test that lets the index len(items) through
OutOfRangeOff(i) == i > n

\* the bounds test of At
OutOfRange(i) == i >= n

\* At(i) up to its first send
At(c, i) ==
    /\ pc[c] = "idle"
    /\ ~Crashed
    /\ calls' = calls + 1
    /\ pos' = [pos EXCEPT ![c] = i]
    /\ IF OutOfRange(i)
       THEN /\ res' = [res EXCEPT ![c] = NotFound]
            /\ pc' = pc
            /\ hit' = [hit EXCEPT ![c] = FALSE]
       ELSE /\ hit' = [hit EXCEPT ![c] = Quiescent /\ contains(pages, PageOf(i))]
            /\ IF NextStage("later1", i) = "index"
               THEN AtIndex(c, i)
               ELSE /\ pc' = [pc EXCEPT ![c] = NextStage("later1", i)]
                    /\ res' = [res EXCEPT ![c] = NoRes]
    /\ UNCHANGED <<n, pageSize, op, get, fetchC, coordVars, workers, doneC, freeVars, itemVars, pageLoads,
                   evicts>>

\* ---- the coordinator ----

\* the coordinator receives req from the request channel
CoordRequest(req) ==
    /\ coord = "run"
    /\ fetchC = "open"
    /\ IF contains(pages, req.page)
       THEN /\ IF req.done # NoChan
               THEN LET s == SendAll(doneC, <<req.done>>, req.page)
                    IN /\ doneC' = s.dc
                       /\ coord' = IF s.blocked THEN "blocked" ELSE coord
               ELSE UNCHANGED <<doneC, coord>>
            /\ UNCHANGED <<pages, loading, workers, pageLoads>>
       ELSE LET t == track(loading, req)
            IN /\ loading' = t.loading
               /\ IF t.isNew
                  THEN /\ workers' = workers (+) SetToBag({loadPage(req.page)})
                       /\ pageLoads' = [pageLoads EXCEPT ![req.page] = @ + 1]
                  ELSE UNCHANGED <<workers, pageLoads>>
               /\ UNCHANGED <<pages, doneC, coord>>

\* fetchPagesLater: one send of a prefetch request
fetchPagesLater(c) ==
    /\ pc[c] \in {"later1", "later2"}
    /\ ~Crashed
    /\ CoordRequest([page |-> StagePage(pc[c], pos[c]), done |-> NoChan])
    /\ IF StageAfter(pc[c], pos[c]) = "index"
       THEN AtIndex(c, pos[c])
       ELSE /\ pc' = [pc EXCEPT ![c] = StageAfter(pc[c], pos[c])]
            /\ res' = res
    /\ UNCHANGED <<n, pageSize, op, get, fetchC, pos, hit, freeVars, itemVars, calls, evicts>>

\* fetchPageNow: the send of the blocking request
fetchPageNow(c) ==
    /\ pc[c] = "now"
    /\ ~Crashed
    /\ CoordRequest([page |-> StagePage("now", pos[c]), done |-> c])
    /\ pc' = [pc EXCEPT ![c] = "wait"]
    /\ UNCHANGED <<n, pageSize, op, get, fetchC, pos, res, hit, freeVars, itemVars, calls, evicts>>

\* fetchPageNow: the receive from r.done, then the return of At
AtReturn(c) ==
    /\ pc[c] = "wait"
    /\ ~Crashed
    /\ doneC[c] # <<>>
    /\ doneC' = [doneC EXCEPT ![c] = Tail(@)]
    /\ AtIndex(c, pos[c])
    /\ UNCHANGED <<n, pageSize, op, get, fetchC, coordVars, workers, pos, hit, freeVars, itemVars,
                   pageLoads, calls, evicts>>

\* a worker that only waits until every goroutine has been started
joinedEarly(w) == w.todo = {}

\* a worker that reports only when Load returned nil on every item
joinedOk(w) == w.todo = {} /\ w.run = {} /\ mapPageItems(w.page) \cap errs = {}

\* wg.Wait of mapPageItems has returned: fn has returned on every item
joined(w) == w.todo = {} /\ w.run = {}

\* the coordinator receives page from the ready channel
PageReady(w) ==
    /\ w \in WorkerSet
    /\ w.kind = "load" /\ joined(w)
    /\ coord = "run"
    /\ ~Crashed
    /\ IF ~isActive(loading, w.page)
       THEN /\ coord' = "panic"
            /\ workers' = workers (-) SetToBag({w})
            /\ UNCHANGED <<pages, loading, doneC, evicts>>
       ELSE LET a == add(pages, w.page)
                d == done(loading, w.page)
                s == SendAll(doneC, d.notify, w.page)
            IN /\ pages' = a.pages
               /\ workers' = IF a.evicted
                             THEN (workers (-) SetToBag({w})) (+) SetToBag({unloadPage(a.ep)})
                             ELSE workers (-) SetToBag({w})
               /\ evicts' = IF a.evicted THEN [evicts EXCEPT ![a.ep] = @ + 1] ELSE evicts
               /\ doneC' = s.dc
               /\ IF s.blocked
                  THEN /\ coord' = "blocked"
                       /\ loading' = loading
                  ELSE /\ coord' = coord
                       /\ loading' = d.loading
    /\ UNCHANGED <<n, pageSize, op, get, fetchC, callerVars, freeVars, itemVars, pageLoads, calls>>

\* a coordinator that goes on with its loop when the request channel is closed
CoordExitLoop ==
    /\ coord = "run"
    /\ fetchC = "closed"
    /\ ~Crashed
    /\ coord' = coord
    /\ UNCHANGED <<n, pageSize, op, get, fetchC, pages, loading, workers, callerVars, doneC, freeVars,
                   itemVars, pageLoads, calls, evicts>>

\* the coordinator finds the request channel closed and returns
CoordExit ==
    /\ coord = "run"
    /\ fetchC = "closed"
    /\ ~Crashed
    /\ coord' = "exit"
    /\ UNCHANGED <<n, pageSize, op, get, fetchC, pages, loading, workers, callerVars, doneC, freeVars,
                   itemVars, pageLoads, calls, evicts>>

\* ---- page workers ----

\* a goroutine of mapPageItems calls fn on item i
ItemStart(w, i) ==
    /\ w \in WorkerSet
    /\ i \in w.todo
    /\ ~Crashed
    /\ workers' = (workers (-) SetToBag({w}))
                  (+) SetToBag({[w EXCEPT !.todo = @ \ {i}, !.run = @ \cup {i}]})
    /\ IF w.kind = "load"
       THEN /\ last' = [last EXCEPT ![i] = "load"]
            /\ loads' = [loads EXCEPT ![i] = @ + 1]
            /\ unloads' = unloads
       ELSE /\ last' = [last EXCEPT ![i] = "unload"]
            /\ loads' = loads
            /\ unloads' = [unloads EXCEPT ![i] = @ + 1]
    /\ UNCHANGED <<n, pageSize, op, get, fetchC, coordVars, callerVars, doneC, freeVars, pageLoads, calls,
                   evicts, errs>>

\* fn returns on item i, Load with or without an error (ok), which the
\* function literal of loadPage drops; an unload worker ends after its last item
ItemFinish(w, i, ok) ==
    /\ w \in WorkerSet
    /\ i \in w.run
    /\ ~Crashed
    /\ LET w2 == [w EXCEPT !.run = @ \ {i}]
       IN workers' = IF w.kind = "unload" /\ w2.todo = {} /\ w2.run = {}
                     THEN workers (-) SetToBag({w})
                     ELSE (workers (-) SetToBag({w})) (+) SetToBag({w2})
    /\ errs' = IF w.kind # "load" THEN errs
               ELSE IF ok THEN errs \ {i} ELSE errs \cup {i}
    /\ UNCHANGED <<n, pageSize, op, get, fetchC, coordVars, callerVars, doneC, freeVars, last, loads,
                   unloads, pageLoads, calls, evicts>>

\* Load returns nil, or Unload returns
ItemReturn(w, i) == ItemFinish(w, i, TRUE)

\* Load returns an error
ItemFail(w, i) == w.kind = "load" /\ ItemFinish(w, i, FALSE)

\* ---- Free ----

\* stopPreFetcher: close the request channel
stopPreFetcher ==
    /\ freePc = "none"
    /\ \A c \in Callers : pc[c] = "idle"
    /\ ~Crashed
    /\ fetchC' = "closed"
    /\ freePc' = "stopped"
    /\ UNCHANGED <<n, pageSize, op, get, coordVars, workers, callerVars, doneC, freeG, freeUnl, itemVars,
                   pageLoads, calls, evicts>>

\* a loop that starts at index 1
FreeItemsShort == 1..(n - 1)

\* the items Free's loop spawns an Unload goroutine for
FreeItems == 0..(n - 1)

\* the loop of Free: one goroutine per item, none awaited
Free ==
    /\ freePc = "stopped"
    /\ ~Crashed
    /\ freePc' = "returned"
    /\ freeG' = [i \in Items |-> IF i \in FreeItems THEN "spawned" ELSE freeG[i]]
    /\ UNCHANGED <<n, pageSize, op, get, fetchC, coordVars, workers, callerVars, doneC, freeUnl, itemVars,
                   pageLoads, calls, evicts>>

FreeUnloadStart(i) ==
    /\ i \in Items
    /\ freeG[i] = "spawned"
    /\ ~Crashed
    /\ freeG' = [freeG EXCEPT ![i] = "running"]
    /\ freeUnl' = [freeUnl EXCEPT ![i] = @ + 1]
    /\ last' = [last EXCEPT ![i] = "unload"]
    /\ UNCHANGED <<n, pageSize, op, get, fetchC, coordVars, workers, callerVars, doneC, freePc, loads,
                   unloads, errs, pageLoads, calls, evicts>>

FreeUnloadReturn(i) ==
    /\ i \in Items
    /\ freeG[i] = "running"
    /\ ~Crashed
    /\ freeG' = [freeG EXCEPT ![i] = "done"]
    /\ UNCHANGED <<n, pageSize, op, get, fetchC, coordVars, workers, callerVars, doneC, freePc, freeUnl,
                   itemVars, pageLoads, calls, evicts>>

\* ---- Get ----

\* Get(c, f, t) and the first call of the function it returns; first records
\* the argument f, from is the loop variable
GetStart(f, t) ==
    /\ get.st = "none"
    /\ get' = [first |-> f, from |-> f, to |-> t, out |-> <<>>, st |-> "loop", k |-> calls,
               stop |-> FALSE]
    /\ UNCHANGED <<n, pageSize, op, fetchC, coordVars, workers, callerVars, doneC, freeVars, itemVars,
                   pageLoads, calls, evicts>>

\* a loop test that lets the index to through
GetMoreIncl(f, t) == f <= t

\* the loop test of Get
GetMore(f, t) == f < t

\* the loop test: go on to the call of At, or return
GetLoop ==
    /\ get.st = "loop"
    /\ get' = IF GetMore(get.from, get.to)
              THEN [get EXCEPT !.st = "at", !.k = calls]
              ELSE [get EXCEPT !.st = "done"]
    /\ UNCHANGED <<n, pageSize, op, fetchC, coordVars, workers, callerVars, doneC, freeVars, itemVars,
                   pageLoads, calls, evicts>>

\* c.At(from) is called
GetAt ==
    /\ get.st = "at"
    /\ calls = get.k
    /\ At(1, get.from)

\* c.At(from) has returned: return when it reports not found, else yield the
\* item; the consumer goes on (more) or stops
GetYield ==
    /\ get.st = "at"
    /\ calls = get.k + 1
    /\ pc[1] = "idle"
    /\ IF ~res[1].found
       THEN get' = [get EXCEPT !.st = "done"]
       ELSE \E more \in BOOLEAN :
               get' = IF more
                      THEN [get EXCEPT !.out = Append(@, res[1].item), !.from = @ + 1,
                                       !.st = "loop"]
                      ELSE [get EXCEPT !.out = Append(@, res[1].item), !.st = "done",
                                       !.stop = TRUE]
    /\ UNCHANGED <<n, pageSize, op, fetchC, coordVars, workers, callerVars, doneC, freeVars, itemVars,
                   pageLoads, calls, evicts>>

\* ---- specifications ----

\* no Get iterator is running
NoGet == [first |-> 0, from |-> 0, to |-> 0, out |-> <<>>, st |-> "none", k |-> 0, stop |-> FALSE]

\* no call has been made on the tracker directly
NoOp == [name |-> "none", page |-> 0]

\* NewCachedSlicePaged(items, pageSize) for given len(items) and pageSize
NewCachedSlicePaged(len, psz) ==
    /\ n = len
    /\ pageSize = psz
    /\ fetchC = "open"
    /\ coord = "run"
    /\ pages = <<>>
    /\ loading = <<>>
    /\ workers = EmptyBag
    /\ pc = [c \in Callers |-> "idle"]
    /\ pos = [c \in Callers |-> 0]
    /\ res = [c \in Callers |-> NoRes]
    /\ hit = [c \in Callers |-> FALSE]
    /\ doneC = [c \in Callers |-> <<>>]
    /\ freePc = "none"
    /\ freeG = [i \in 0..(len - 1) |-> "none"]
    /\ freeUnl = [i \in 0..(len - 1) |-> 0]
    /\ last = [i \in 0..(len - 1) |-> "none"]
    /\ loads = [i \in 0..(len - 1) |-> 0]
    /\ pageLoads = [p \in 0..(intCeil(len, psz) - 1) |-> 0]
    /\ calls = 0
    /\ unloads = [i \in 0..(len - 1) |-> 0]
    /\ evicts = [p \in 0..(intCeil(len, psz) - 1) |-> 0]
    /\ errs = {}
    /\ get = NoGet
    /\ op = NoOp

\* the cache is used until Free and not after it
InUse == freePc = "none"

\* -- Spec: concurrent consumers, any index, Free --

Init == NewCachedSlicePaged(NumItems, PageSz)

Positions == (-MaxNeg)..n

Next ==
    \/ \E c \in Callers, i \in Positions : InUse /\ calls < MaxCalls /\ At(c, i)
    \/ \E c \in Callers : fetchPagesLater(c)
    \/ \E c \in Callers : fetchPageNow(c)
    \/ \E c \in Callers : AtReturn(c)
    \/ \E w \in WorkerSet : PageReady(w)
    \/ \E w \in WorkerSet, i \in Items : ItemStart(w, i)
    \/ \E w \in WorkerSet, i \in Items : ItemReturn(w, i)
    \/ stopPreFetcher
    \/ Free
    \/ \E i \in Items : FreeUnloadStart(i)
    \/ \E i \in Items : FreeUnloadReturn(i)
    \/ CoordExit

Spec == Init /\ [][Next]_vars

\* -- SpecLive: concurrent consumers, Free is never called, every Load and
\* Unload returns, and each blocked send or receive is eventually served --

InitLive == NewCachedSlicePaged(LiveItems, LivePageSz)

NextLive ==
    \/ \E c \in Callers, i \in 0..n : calls < LiveCalls /\ At(c, i)
    \/ \E c \in Callers : fetchPagesLater(c)
    \/ \E c \in Callers : fetchPageNow(c)
    \/ \E c \in Callers : AtReturn(c)
    \/ \E w \in WorkerSet : PageReady(w)
    \/ \E w \in WorkerSet, i \in Items : ItemStart(w, i)
    \/ \E w \in WorkerSet, i \in Items : ItemReturn(w, i)

Fairness ==
    /\ \A c \in Callers : WF_vars(fetchPagesLater(c))
    /\ \A c \in Callers : WF_vars(fetchPageNow(c))
    /\ \A c \in Callers : WF_vars(AtReturn(c))
    /\ WF_vars(\E w \in WorkerSet : PageReady(w))
    /\ WF_vars(\E w \in WorkerSet, i \in Items : ItemStart(w, i))
    /\ WF_vars(\E w \in WorkerSet, i \in Items : ItemReturn(w, i))

SpecLive == InitLive /\ [][NextLive]_vars /\ Fairness

\* -- SpecOne: one consumer, six pages of one item, calls at any time --

InitOne == NewCachedSlicePaged(OneItems, 1)

NextOne ==
    \/ \E i \in 0..(n - 1) : calls < OneCalls /\ At(1, i)
    \/ fetchPagesLater(1)
    \/ fetchPageNow(1)
    \/ AtReturn(1)
    \/ \E w \in WorkerSet : PageReady(w)
    \/ \E w \in WorkerSet, i \in Items : ItemStart(w, i)
    \/ \E w \in WorkerSet, i \in Items : ItemReturn(w, i)

SpecOne == InitOne /\ [][NextOne]_vars

\* -- SpecSolo: as SpecOne, every call begins in a quiescent state --

NextSolo ==
    \/ \E i \in 0..(n - 1) : calls < SoloCalls /\ Quiescent /\ At(1, i)
    \/ fetchPagesLater(1)
    \/ fetchPageNow(1)
    \/ AtReturn(1)
    \/ \E w \in WorkerSet : PageReady(w)
    \/ \E w \in WorkerSet, i \in Items : ItemStart(w, i)
    \/ \E w \in WorkerSet, i \in Items : ItemReturn(w, i)

SpecSolo == InitOne /\ [][NextSolo]_vars

\* -- SpecScan: one consumer calls At(0), At(1), ..., At(n-1) in order --

InitScan == \E len \in 1..ScanItems, psz \in 1..ScanPageSz : NewCachedSlicePaged(len, psz)

NextScan ==
    \/ calls < n /\ At(1, calls)
    \/ fetchPagesLater(1)
    \/ fetchPageNow(1)
    \/ AtReturn(1)
    \/ \E w \in WorkerSet : PageReady(w)
    \/ \E w \in WorkerSet, i \in Items : ItemStart(w, i)
    \/ \E w \in WorkerSet, i \in Items : ItemReturn(w, i)

SpecScan == InitScan /\ [][NextScan]_vars

\* -- SpecFail: concurrent consumers, no Free, any Load may return an error --

InitFail == NewCachedSlicePaged(FailItems, FailPageSz)

NextFail ==
    \/ \E c \in Callers, i \in 0..(n - 1) : calls < FailCalls /\ At(c, i)
    \/ \E c \in Callers : fetchPagesLater(c)
    \/ \E c \in Callers : fetchPageNow(c)
    \/ \E c \in Callers : AtReturn(c)
    \/ \E w \in WorkerSet : PageReady(w)
    \/ \E w \in WorkerSet, i \in Items : ItemStart(w, i)
    \/ \E w \in WorkerSet, i \in Items : ItemReturn(w, i)
    \/ \E w \in WorkerSet, i \in Items : ItemFail(w, i)

SpecFail == InitFail /\ [][NextFail]_vars

\* -- SpecLag: as SpecOne, every call begins when no load is under way;
\* unload workers may still be running --

\* the consumer is idle and every load worker has reported
LoadsQuiet == pc[1] = "idle" /\ \A w \in WorkerSet : w.kind = "unload"

NextLag ==
    \/ \E i \in 0..(n - 1) : calls < LagCalls /\ LoadsQuiet /\ At(1, i)
    \/ fetchPagesLater(1)
    \/ fetchPageNow(1)
    \/ AtReturn(1)
    \/ \E w \in WorkerSet : PageReady(w)
    \/ \E w \in WorkerSet, i \in Items : ItemStart(w, i)
    \/ \E w \in WorkerSet, i \in Items : ItemReturn(w, i)

SpecLag == InitOne /\ [][NextLag]_vars

\* -- SpecGet: one consumer runs one Get(c, from, to) over a fresh cache --

InitGet == NewCachedSlicePaged(GetItems, GetPageSz)

NextGet ==
    \/ \E f \in 0..(n + 1), t \in 0..(n + 1) : GetStart(f, t)
    \/ GetLoop
    \/ GetAt
    \/ GetYield
    \/ fetchPagesLater(1)
    \/ fetchPageNow(1)
    \/ AtReturn(1)
    \/ \E w \in WorkerSet : PageReady(w)
    \/ \E w \in WorkerSet, i \in Items : ItemStart(w, i)
    \/ \E w \in WorkerSet, i \in Items : ItemReturn(w, i)

SpecGet == InitGet /\ [][NextGet]_vars

\* -- SpecPages: one consumer calls At on one index of page 0, then of page
\* 1, ..., then of the last page --

InitPages ==
    \E len \in 1..PagesItems, psz \in 1..PagesPageSz : NewCachedSlicePaged(len, psz)

NextPages ==
    \/ \E i \in Items : calls < numPages /\ PageOf(i) = calls /\ At(1, i)
    \/ fetchPagesLater(1)
    \/ fetchPageNow(1)
    \/ AtReturn(1)
    \/ \E w \in WorkerSet : PageReady(w)
    \/ \E w \in WorkerSet, i \in Items : ItemStart(w, i)
    \/ \E w \in WorkerSet, i \in Items : ItemReturn(w, i)

SpecPages == InitPages /\ [][NextPages]_vars

\* -- SpecAdd: the resident set is full, in any order, and the load worker of
\* one more page has finished; the coordinator takes its page-ready message --

\* the values cache.pages can hold when it is full, np being the number of pages
FullPages(np) ==
    { s \in [1..cacheSize -> 0..(np - 1)] : \A j, k \in 1..cacheSize : j # k => s[j] # s[k] }

\* the full values of cache.pages that are in ascending order, as add leaves
\* them after an eviction
AscendingPages(np) ==
    { s \in FullPages(np) : \A j \in 1..(cacheSize - 1) : s[j] < s[j + 1] }

\* a cache of len items whose resident set is full, cache.pages being one of
\* full, and in which the load worker of one more page p has had Load return
\* on every item
FullCache(len, psz, full) ==
    /\ n = len
    /\ pageSize = psz
    /\ fetchC = "open"
    /\ coord = "run"
    /\ pages \in full
    /\ \E p \in 0..(intCeil(len, psz) - 1) :
        /\ ~contains(pages, p)
        /\ loading = <<[p |-> p, reply |-> <<>>]>>
        /\ workers = SetToBag({[kind |-> "load", page |-> p, todo |-> {}, run |-> {}]})
        /\ last = [i \in 0..(len - 1) |->
                      IF contains(pages, TruncDiv(i, psz)) \/ TruncDiv(i, psz) = p
                      THEN "load" ELSE "none"]
        /\ loads = [i \in 0..(len - 1) |->
                       IF contains(pages, TruncDiv(i, psz)) \/ TruncDiv(i, psz) = p
                       THEN 1 ELSE 0]
        /\ pageLoads = [q \in 0..(intCeil(len, psz) - 1) |->
                           IF contains(pages, q) \/ q = p THEN 1 ELSE 0]
    /\ pc = [c \in Callers |-> "idle"]
    /\ pos = [c \in Callers |-> 0]
    /\ res = [c \in Callers |-> NoRes]
    /\ hit = [c \in Callers |-> FALSE]
    /\ doneC = [c \in Callers |-> <<>>]
    /\ freePc = "none"
    /\ freeG = [i \in 0..(len - 1) |-> "none"]
    /\ freeUnl = [i \in 0..(len - 1) |-> 0]
    /\ calls = 0
    /\ unloads = [i \in 0..(len - 1) |-> 0]
    /\ evicts = [q \in 0..(intCeil(len, psz) - 1) |-> 0]
    /\ errs = {}
    /\ get = NoGet
    /\ op = NoOp

InitAdd == FullCache(AddItems, 1, FullPages(AddItems))

NextAdd ==
    \/ \E w \in WorkerSet : PageReady(w)
    \/ \E w \in WorkerSet, i \in Items : ItemStart(w, i)
    \/ \E w \in WorkerSet, i \in Items : ItemReturn(w, i)

SpecAdd == InitAdd /\ [][NextAdd]_vars

\* -- SpecEvict: as SpecAdd with one page more than the resident set holds,
\* pages of EvictPageSz items; every Unload returns and every worker and the
\* coordinator are eventually scheduled --

InitEvict ==
    FullCache((cacheSize + 1) * EvictPageSz, EvictPageSz, AscendingPages(cacheSize + 1))

EvictFairness ==
    /\ WF_vars(\E w \in WorkerSet : PageReady(w))
    /\ WF_vars(\E w \in WorkerSet, i \in Items : ItemStart(w, i))
    /\ WF_vars(\E w \in WorkerSet, i \in Items : ItemReturn(w, i))

SpecEvict == InitEvict /\ [][NextAdd]_vars /\ EvictFairness

\* -- SpecStop: one consumer, then Free with no At in progress; every Load and
\* Unload returns, each blocked send or receive is eventually served, the
\* select of the coordinator eventually takes the closed request channel, and
\* Free, once begun, runs to its end with every goroutine it starts --

InitStop == NewCachedSlicePaged(StopItems, StopPageSz)

NextStop ==
    \/ \E i \in 0..n : InUse /\ calls < StopCalls /\ At(1, i)
    \/ \E c \in Callers : fetchPagesLater(c)
    \/ \E c \in Callers : fetchPageNow(c)
    \/ \E c \in Callers : AtReturn(c)
    \/ \E w \in WorkerSet : PageReady(w)
    \/ \E w \in WorkerSet, i \in Items : ItemStart(w, i)
    \/ \E w \in WorkerSet, i \in Items : ItemReturn(w, i)
    \/ stopPreFetcher
    \/ Free
    \/ \E i \in Items : FreeUnloadStart(i)
    \/ \E i \in Items : FreeUnloadReturn(i)
    \/ CoordExit

StopFairness ==
    /\ WF_vars(\E c \in Callers : fetchPagesLater(c))
    /\ WF_vars(\E c \in Callers : fetchPageNow(c))
    /\ WF_vars(\E c \in Callers : AtReturn(c))
    /\ WF_vars(\E w \in WorkerSet : PageReady(w))
    /\ WF_vars(\E w \in WorkerSet, i \in Items : ItemStart(w, i))
    /\ WF_vars(\E w \in WorkerSet, i \in Items : ItemReturn(w, i))
    /\ WF_vars(CoordExit)
    /\ WF_vars(Free)
    /\ WF_vars(\E i \in Items : FreeUnloadStart(i))
    /\ WF_vars(\E i \in Items : FreeUnloadReturn(i))

SpecStop == InitStop /\ [][NextStop]_vars /\ StopFairness

\* -- SpecTracker: the in-flight tracker alone, driven by any sequence of
\* track and done calls on any page, tracked or not --

\* the done channel of caller c is held by an entry of the tracker
InReply(c) ==
    \E k \in 1..Len(loading) : \E j \in 1..Len(loading[k].reply) : loading[k].reply[j] = c

\* inflight.track(req); a request carries nil or a channel made for it
TrackCall(req) ==
    /\ req.done # NoChan => doneC[req.done] = <<>> /\ ~InReply(req.done)
    /\ loading' = track(loading, req).loading
    /\ op' = [name |-> "track", page |-> req.page]
    /\ UNCHANGED <<n, pageSize, get, fetchC, coord, pages, workers, callerVars, doneC, freeVars,
                   itemVars, pageLoads, calls, evicts>>

\* inflight.done(page): it has no other exit than its return
DoneCall(page) ==
    /\ LET d == done(loading, page)
           s == SendAll(doneC, d.notify, page)
       IN /\ loading' = d.loading
          /\ doneC' = s.dc
          /\ coord' = IF s.blocked THEN "blocked" ELSE coord
    /\ op' = [name |-> "done", page |-> page]
    /\ UNCHANGED <<n, pageSize, get, fetchC, pages, workers, callerVars, freeVars, itemVars,
                   pageLoads, calls, evicts>>

InitTracker == NewCachedSlicePaged(TrackItems, 1)

NextTracker ==
    \/ \E p \in Pages, c \in Callers \cup {NoChan} : TrackCall([page |-> p, done |-> c])
    \/ \E p \in Pages : DoneCall(p)

SpecTracker == InitTracker /\ [][NextTracker]_vars

\* ---- properties ----

\* number of running load workers of page p
NumLoadWorkers(p) == BagCardinality([w \in LoadWorkers(p) |-> workers[w]])

\* number of in-flight entries of page p
NumEntries(p) == Cardinality({ k \in 1..Len(loading) : loading[k].p = p })

\* a load worker of page p is started in this step
LoadStarted(p) == pageLoads'[p] > pageLoads[p]

\* C1: for every page at most one load worker is running and the tracker holds
\* at most one entry for it, a running load worker has its entry, and no load
\* of a page is started while an entry for the page exists.
C1_OneLoadPerPage ==
    /\ [](\A p \in Pages : /\ NumLoadWorkers(p) <= 1
                           /\ NumEntries(p) <= 1
                           /\ NumLoadWorkers(p) = 1 => NumEntries(p) = 1)
    /\ [][\A p \in Pages : LoadStarted(p) => ~isActive(loading, p)]_vars

\* two callers wait for the same page while its single load worker runs
C1_Witness ==
    \E p \in Pages : \E c1, c2 \in Callers :
        /\ c1 # c2
        /\ pc[c1] = "wait" /\ PageOf(pos[c1]) = p
        /\ pc[c2] = "wait" /\ PageOf(pos[c2]) = p
        /\ NumLoadWorkers(p) = 1
        /\ NumEntries(p) = 1

\* C2: when Free is never called and every Load returns, under fair scheduling
\* every call At(i) with 0 <= i < n eventually returns (items[i], true).
C2_AtReturns ==
    \A c \in Callers :
        (pc[c] # "idle") ~> (pc[c] = "idle" /\ res[c] = Found(pos[c]))

\* both callers have returned found from calls that waited for a load
C2_Witness ==
    /\ \A c \in Callers : pc[c] = "idle" /\ res[c].found /\ ~hit[c]
    /\ calls = LiveCalls
    /\ \A c1, c2 \in Callers : PageOf(pos[c1]) = PageOf(pos[c2])

\* the most recent operation started on item i is a Load and it has returned
ItemLoaded(i) ==
    /\ last[i] = "load"
    /\ \A w \in WorkerSet : w.kind = "load" => i \notin w.run

\* caller c returns from At with found = true in this step
ReturnsFound(c) == pc[c] # "idle" /\ pc'[c] = "idle" /\ res'[c].found

\* C3: for one consumer whose calls each begin in a quiescent state, whenever
\* At(i) returns found = true the most recent operation started on item i is
\* a Load that has returned.
C3_AtEnsuresLoaded ==
    [][\A c \in Callers : ReturnsFound(c) => ItemLoaded(pos[c])']_vars

\* C4: the resident-page set holds at most cacheSize page numbers and no page
\* number twice.
C4_ResidentBounded ==
    /\ Len(pages) <= cacheSize
    /\ \A j, k \in 1..Len(pages) : j # k => pages[j] # pages[k]

\* the set is full and a page has just been evicted from it
C4_Witness ==
    /\ Len(pages) = cacheSize
    /\ \E w \in WorkerSet : w.kind = "unload"

\* C5: in a scan At(0), ..., At(n-1) of a fresh cache no page is loaded twice
\* and Load is invoked at most once on an item; when the scan is over and the
\* workers are done, every page was loaded exactly once and every item exactly
\* once, numPages page loads in total.
C5_ScanLoadsOnce ==
    /\ \A p \in Pages : pageLoads[p] <= 1
    /\ \A i \in Items : loads[i] <= 1
    /\ (calls = n /\ Quiescent) =>
            /\ \A p \in Pages : pageLoads[p] = 1
            /\ \A i \in Items : loads[i] = 1
            /\ Cardinality({ p \in Pages : pageLoads[p] = 1 }) = intCeil(n, pageSize)

\* a scan over more pages than the cache holds is over
C5_Witness ==
    /\ calls = n /\ Quiescent
    /\ numPages > cacheSize
    /\ res[1] = Found(n - 1)

\* the reply list of the in-flight entry of page p, empty when there is none
Waiters(p) ==
    IF isActive(loading, p) THEN loading[loadingIndex(loading, p)].reply ELSE <<>>

\* number of times caller c occurs in the reply list of page p
TimesWaiting(c, p) == Cardinality({ k \in 1..Len(Waiters(p)) : Waiters(p)[k] = c })

\* C6: callers of At on an in-flight page join its single load: a waiting
\* caller either holds its notification or is once in the reply list of the
\* page's entry; the step that removes the entry of page p has made p resident
\* and sends p to every waiter of the entry; and when every caller has made
\* one call, all on the same page, and all have returned, all found their item
\* and the page and each of its items were loaded exactly once.
C6_JoinOneLoad ==
    /\ [](\A c \in Callers : pc[c] = "wait" =>
              LET p == PageOf(pos[c])
              IN IF doneC[c] = <<>>
                 THEN TimesWaiting(c, p) = 1 /\ NumLoadWorkers(p) = 1
                 ELSE doneC[c] = <<p>> /\ TimesWaiting(c, p) = 0)
    /\ [][\A p \in Pages : (isActive(loading, p) /\ ~isActive(loading', p)) =>
              /\ contains(pages', p)
              /\ \A c \in Callers :
                    doneC'[c] = IF TimesWaiting(c, p) > 0 THEN Append(doneC[c], p)
                                ELSE doneC[c]]_vars
    /\ []((/\ calls = NumCallers
           /\ \A c \in Callers : pc[c] = "idle" /\ res[c].found
           /\ \A c1, c2 \in Callers : PageOf(pos[c1]) = PageOf(pos[c2]))
          => /\ \A c \in Callers : res[c] = Found(pos[c])
             /\ pageLoads[PageOf(pos[1])] = 1
             /\ \A i \in mapPageItems(PageOf(pos[1])) : loads[i] = 1)

\* every caller waits for the same page, every one has just been notified by
\* the step that removed the entry of the page, which was loaded once
C6_Witness ==
    \E p \in Pages :
        /\ \A c \in Callers : pc[c] = "wait" /\ PageOf(pos[c]) = p /\ doneC[c] = <<p>>
        /\ ~isActive(loading, p)
        /\ pageLoads[p] = 1

\* this step is a call of At by caller c, or changes no caller but the count
AtStepOf(c) ==
    /\ calls' = calls + 1
    /\ pc[c] = "idle"
    /\ \A c2 \in Callers \ {c} : pc'[c2] = pc[c2] /\ pos'[c2] = pos[c2] /\ res'[c2] = res[c2]

\* the step sends no request, starts no worker and changes no state of the
\* cache or of an item, and caller c returns not found
NotFoundNoEffect(c) ==
    /\ res'[c] = NotFound
    /\ pc' = pc
    /\ UNCHANGED <<n, pageSize, op, fetchC, coord, pages, loading, workers, doneC, freePc, freeG,
                   freeUnl, last, loads, pageLoads, unloads, evicts, errs, get>>

\* C8: At(i) with i >= n returns found = false and has no side effects.
C8_AtBeyondEnd ==
    [][\A c \in Callers : (AtStepOf(c) /\ pos'[c] >= n) => NotFoundNoEffect(c)]_vars

\* a caller has been told not found for an index >= n while pages are resident
C8_Witness ==
    \E c \in Callers :
        /\ pos[c] >= n /\ res[c] = NotFound /\ pc[c] = "idle"
        /\ pages # <<>>

\* C9: At(i) with i < 0 returns found = false, has no side effects and does
\* not fail.
C9_AtNegative ==
    [][\A c \in Callers : (AtStepOf(c) /\ pos'[c] < 0) => NotFoundNoEffect(c)]_vars

\* C10: Free closes the request channel and then spawns, without waiting, one
\* goroutine per item that calls Unload on it once, whether or not the page of
\* the item is resident.
C10_FreeUnloadsAll ==
    /\ [](freePc # "none" => fetchC = "closed")
    /\ [][(freePc = "stopped" /\ freePc' = "returned") =>
              /\ \A i \in Items : freeG'[i] = "spawned"
              /\ freeUnl' = freeUnl]_vars
    /\ [](\A i \in Items :
              /\ freeUnl[i] = (IF freeG[i] \in {"running", "done"} THEN 1 ELSE 0)
              /\ freePc = "returned" <=> freeG[i] # "none")

\* Free has returned with a resident and a non-resident page, some Unload of
\* Free has returned and another has not yet begun
C10_Witness ==
    /\ freePc = "returned"
    /\ \E i, j \in Items :
          /\ contains(pages, PageOf(i)) /\ ~contains(pages, PageOf(j))
          /\ freeG[i] = "done" /\ freeG[j] = "spawned"

\* Load is invoked on item i in this step
LoadInvoked(i) == loads'[i] # loads[i]

\* C7 as stated: a call At(i) that begins in a quiescent state with page(i)
\* resident causes no Load invocation on any item.
C7_NoLoadAtAll ==
    [][\A c \in Callers : hit[c] => \A i \in Items : ~LoadInvoked(i)]_vars

\* C7 amended: a call At(i) that begins in a quiescent state with page(i)
\* resident returns found = true and causes no Load invocation on an item of
\* page(i), which stays resident; the Loads it causes are on items of the
\* neighbour pages page(i)-1 and page(i)+1. After a call At(i) and quiescence
\* page(i) is resident, so this holds of a second call At(i).
C7_NoLoadOfResidentPage ==
    /\ [][\A c \in Callers : hit[c] =>
              \A i \in Items : LoadInvoked(i) =>
                  PageOf(i) \in {PageOf(pos[c]) - 1, PageOf(pos[c]) + 1}]_vars
    /\ [](\A c \in Callers : hit[c] =>
              /\ contains(pages, PageOf(pos[c]))
              /\ pc[c] = "idle" => res[c] = Found(pos[c]))
    /\ [](\A c \in Callers : (Quiescent /\ res[c].found) => contains(pages, PageOf(pos[c])))

\* a call that found its page resident has returned while the load of a
\* neighbour page it requested is running
C7_Witness ==
    /\ hit[1] /\ pc[1] = "idle" /\ res[1] = Found(pos[1])
    /\ \E w \in WorkerSet : w.kind = "load" /\ w.run # {}

\* Load is invoked on item i in this step
LoadCalled(i) == loads'[i] > loads[i]

\* C11: after Free (called with no At in progress) every item ends unloaded:
\* once the Unload that Free issued for item i has returned, no Load is
\* invoked on item i any more.
C11_NoLoadAfterFree ==
    [][\A i \in Items : freeG[i] = "done" => ~LoadCalled(i)]_vars

\* C19: in every quiescent state reached without Free, every item whose most
\* recent operation is a Load belongs to a resident page, hence at most
\* cacheSize pages have loaded items.
C19_NoLeak ==
    Quiescent =>
        /\ \A i \in Items : last[i] = "load" => contains(pages, PageOf(i))
        /\ Cardinality({ PageOf(i) : i \in { j \in Items : last[j] = "load" } }) <= cacheSize

\* page p enters the resident set in this step
Enters(p) == ~contains(pages, p) /\ contains(pages', p)

\* a load worker of page p has had Load return on every item of the page and
\* ends in this step
LoadWorkerEnds(p) ==
    /\ \E w \in LoadWorkers(p) : w.todo = {} /\ w.run = {}
    /\ \A w \in LoadWorkers(p) : w.todo = {} /\ w.run = {}
    /\ \A i \in mapPageItems(p) : loads[i] >= 1
    /\ LoadWorkers(p) \cap BagToSet(workers') = {}

\* C20: a page enters the resident set only in the step in which the
\* coordinator takes the page-ready message of the page's load worker, and by
\* then every per-item Load call of that worker has returned.
C20_LoadedBeforeResident ==
    [][\A p \in Pages : Enters(p) => LoadWorkerEnds(p)]_vars

\* a page of two items is resident while Load runs on an item of another page
C20_Witness ==
    /\ pageSize = 2
    /\ \E p \in Pages : contains(pages, p) /\ Cardinality(mapPageItems(p)) = 2
    /\ \E w \in WorkerSet : w.kind = "load" /\ w.run # {}

\* caller c is suspended: it receives from a done channel that holds nothing
Suspended(c) == pc[c] = "wait" /\ doneC[c] = <<>>

\* C15: the coordinator never blocks inside a step, so the sends of the
\* prefetch requests for p-1 and p+1 and of the blocking request are taken at
\* once, whatever loads and unloads are running; At is suspended only in the
\* receive of the blocking request, while the load of its page is in flight.
C15_PrefetchNeverBlocks ==
    /\ coord = "run"
    /\ \A c \in Callers :
        /\ pc[c] \in {"later1", "later2"} => ENABLED fetchPagesLater(c)
        /\ pc[c] = "now" => ENABLED fetchPageNow(c)
        /\ pc[c] = "wait" /\ doneC[c] # <<>> => ENABLED AtReturn(c)
        /\ Suspended(c) => isActive(loading, PageOf(pos[c]))

\* a caller is about to send a prefetch request while a Load and an Unload
\* are running
C15_Witness ==
    /\ pc[1] \in {"later1", "later2"}
    /\ \E w \in WorkerSet : w.kind = "load" /\ w.run # {}
    /\ \E w \in WorkerSet : w.kind = "unload" /\ w.run # {}

\* the coordinator calls add(p) in this step, on a full resident set that
\* does not hold p
AddOnFull(p) ==
    /\ Len(pages) = cacheSize
    /\ ~contains(pages, p)
    /\ LoadWorkers(p) # {}
    /\ LoadWorkers(p) \cap BagToSet(workers') = {}

\* add returns (e, true) in this step
Reports(e) == evicts'[e] = evicts[e] + 1

\* the index of p in the ascending order of the resident pages and p
IndexAmong(p) == Cardinality({ q \in Range(pages) : q < p })

\* the new page lands in the lower half of the window
LowerHalf(p) == IndexAmong(p) < cacheSize - IndexAmong(p) - 1

Largest(S) == CHOOSE x \in S : \A y \in S : y <= x

Smallest(S) == CHOOSE x \in S : \A y \in S : x <= y

\* C16: when add(p) on a full resident set puts p in the lower half (index 0
\* or 1 of the six pages), the page add returns as evicted is the largest of
\* the six.
C16_LowerEvictsLargest ==
    [][\A p, e \in Pages :
          (AddOnFull(p) /\ LowerHalf(p) /\ Reports(e))
              => e = Largest(Range(pages) \cup {p})]_vars

\* C17: when add(p) on a full resident set puts p in the upper half (index 2
\* or more of the six pages), add returns the smallest of the six as evicted
\* and the resident set afterwards is exactly the other five.
C17_UpperEvictsSmallest ==
    [][\A p \in Pages :
          (AddOnFull(p) /\ ~LowerHalf(p))
              => /\ Reports(Smallest(Range(pages) \cup {p}))
                 /\ \A e \in Pages : Reports(e) => e = Smallest(Range(pages) \cup {p})
                 /\ Range(pages') = (Range(pages) \cup {p}) \ {Smallest(Range(pages) \cup {p})}
                 /\ Len(pages') = cacheSize]_vars

\* add has reported a page smaller than every resident page, and the unload
\* worker of that page is running
C17_Witness ==
    \E e \in Pages :
        /\ evicts[e] = 1
        /\ Len(pages) = cacheSize
        /\ \A q \in Range(pages) : e < q
        /\ \E w \in WorkerSet : w.kind = "unload" /\ w.page = e

\* C18: the page add reports as evicted is the page that leaves the resident
\* set: after add(p) on a full set S returned (e, true) the set is
\* (S \cup {p}) \ {e}.
C18_ReportedIsDropped ==
    [][\A p, e \in Pages :
          (AddOnFull(p) /\ Reports(e))
              => Range(pages') = (Range(pages) \cup {p}) \ {e}]_vars

\* the consumer has touched every page in ascending order and nothing runs
ScanDone == calls = numPages /\ Quiescent

\* C13: on a fresh cache with more than cacheSize pages, after one consumer
\* has called At on one index of each page in ascending order and the system
\* is quiescent, the resident set is the last cacheSize pages and every item
\* of every earlier page has Unload as its last operation.
C13_ForwardScan ==
    (ScanDone /\ numPages > cacheSize) =>
        /\ Range(pages) = (numPages - cacheSize)..(numPages - 1)
        /\ Len(pages) = cacheSize
        /\ \A i \in Items : PageOf(i) < numPages - cacheSize => last[i] = "unload"
        /\ \A i \in Items : PageOf(i) >= numPages - cacheSize => last[i] = "load"

\* a scan over six pages of two items has ended
C13_Witness ==
    /\ ScanDone
    /\ numPages > cacheSize
    /\ pageSize = 2
    /\ last[0] = "unload" /\ last[1] = "unload"

\* an unload worker for every item of page e is started in this step
UnloadSpawned(e) ==
    \E w \in BagToSet(workers') :
        /\ w.kind = "unload" /\ w.page = e
        /\ w.todo = mapPageItems(e) /\ w.run = {}
        /\ CopiesIn(w, workers') = CopiesIn(w, workers) + 1

\* C12: whenever add reports the eviction of page e in the coordinator's ready
\* case, an unload worker for e is started; no item receives more Unload calls
\* than its page has been evicted; and, under fairness, every item ends with
\* exactly one Unload call per eviction of its page.
C12_EvictionUnloads ==
    /\ [][\A e \in Pages : Reports(e) => UnloadSpawned(e)]_vars
    /\ [](\A i \in Items : unloads[i] <= evicts[PageOf(i)])
    /\ <>[](\A i \in Items : unloads[i] = evicts[PageOf(i)])

\* a page has been evicted and every item of it has been unloaded for it
C12_Witness ==
    \E e \in Pages :
        /\ evicts[e] >= 1
        /\ \A i \in mapPageItems(e) : unloads[i] = evicts[e]
        /\ BagToSet(workers) = {}

\* At is called in this step
AtCalled == calls' = calls + 1

\* the items of indices f, f+1, ..., f+k-1 in order
ItemsFrom(f, k) == [j \in 1..k |-> f + j - 1]

\* the number of At calls so far that reported found; only the last call of a
\* Get can report not found
FoundCalls == IF calls > 0 /\ pc[1] = "idle" /\ ~res[1].found THEN calls - 1 ELSE calls

\* C14: Get(c, from, to) calls At on from, from+1, ... in ascending order and
\* never on an index >= to, never after a call that reported not found and
\* never after the consumer stopped; what it has yielded is the found items in
\* that order; with from >= to it calls At zero times and yields nothing.
C14_GetInOrder ==
    /\ [][AtCalled => /\ pos'[1] = get.first + calls
                      /\ pos'[1] < get.to
                      /\ calls > 0 => res[1].found
                      /\ ~get.stop]_vars
    /\ [](get.st \in {"loop", "done"} => get.out = ItemsFrom(get.first, FoundCalls))
    /\ [](get.st = "at" => Len(get.out) \in {calls, calls - 1})
    /\ [](get.st # "none" /\ get.first >= get.to => calls = 0 /\ get.out = <<>>)

\* a Get that started inside the slice has yielded two items and has returned
\* because At reported not found
C14_Witness ==
    /\ get.st = "done"
    /\ Len(get.out) >= 2
    /\ ~get.stop
    /\ res[1] = NotFound
    /\ get.from < get.to

\* the coordinator sends a page to the done channel of caller c in this step
Notified(c) == Len(doneC'[c]) > Len(doneC[c])

\* the page sent to caller c in this step
NotifiedPage(c) == doneC'[c][Len(doneC'[c])]

\* the coordinator takes the page-ready message of page p in this step: the
\* load worker of p is gone after it
ReadyHandled(p) ==
    /\ LoadWorkers(p) # {}
    /\ \A w \in BagToSet(workers') : ~(w.kind = "load" /\ w.page = p)

\* C21: a waiter is notified of page p only in a coordinator step at whose end
\* p is in the resident set; add(p) never drops the page it inserts, so p is
\* resident right after the ready message of p has been handled.
C21_ResidentBeforeNotify ==
    /\ [][\A c \in Callers : Notified(c) => NotifiedPage(c) \in Range(pages')]_vars
    /\ [][\A p \in Pages : ReadyHandled(p) => p \in Range(pages')]_vars

\* the consumer has been notified of the largest page, which add inserted
\* into a full resident set while evicting another page
C21_Witness ==
    /\ doneC[1] = <<numPages - 1>>
    /\ evicts[0] >= 1
    /\ Len(pages) = cacheSize
    /\ pages[cacheSize] = numPages - 1

\* Load has returned, with or without an error, on every item of the page of
\* load worker w, which has not reported yet
AllReturned(w) == w.kind = "load" /\ w.todo = {} /\ w.run = {}

\* caller c waits in fetchPageNow for page p
WaitsFor(c, p) == pc[c] = "wait" /\ doneC[c] = <<>> /\ PageOf(pos[c]) = p

\* C22: errors of Load are dropped: a load worker reports page-ready once
\* every Load has returned, whatever the outcomes; the page is then added to
\* the resident set and every waiter of it is notified; and every At on an
\* index inside the slice returns found = true.
C22_LoadFailuresDiscarded ==
    /\ [](\A w \in WorkerSet : AllReturned(w) => ENABLED PageReady(w))
    /\ [][\A p \in Pages : ReadyHandled(p) =>
              /\ p \in Range(pages')
              /\ \A c \in Callers : WaitsFor(c, p) => Notified(c) /\ NotifiedPage(c) = p]_vars
    /\ [](\A c \in Callers : (pc[c] = "idle" /\ res[c] # NoRes) => res[c] = Found(pos[c]))

\* At has returned found = true for an item of a page of two items on both
\* of which Load returned an error
C22_Witness ==
    \E c \in Callers :
        /\ pc[c] = "idle" /\ res[c] = Found(pos[c])
        /\ Cardinality(mapPageItems(PageOf(pos[c]))) = 2
        /\ mapPageItems(PageOf(pos[c])) \subseteq errs
        /\ PageOf(pos[c]) \in Range(pages)

\* C23: the coordinator never panics with "ready page not inprogress": every
\* load worker, whether running or about to send page-ready, has an in-flight
\* entry for its page, under any interleaving of requests and completions.
C23_AssertionNeverFires ==
    /\ coord # "panic"
    /\ \A w \in WorkerSet : w.kind = "load" => isActive(loading, w.page)

\* the coordinator is about to receive the page-ready message of a page that
\* two callers wait for
C23_Witness ==
    \E w \in WorkerSet :
        /\ AllReturned(w)
        /\ coord = "run"
        /\ \A c \in Callers : WaitsFor(c, w.page)
        /\ Len(loading[loadingIndex(loading, w.page)].reply) = NumCallers

\* the pages with an in-flight entry
InFlight == { loading[k].p : k \in 1..Len(loading) }

\* C24: between coordinator steps no page is both resident and in flight.
C24_ResidentNotInFlight == Range(pages) \cap InFlight = {}

\* a page that was evicted is in flight again while the resident set is full
C24_Witness ==
    /\ Len(pages) = cacheSize
    /\ \E p \in InFlight : evicts[p] >= 1 /\ p \notin Range(pages)

\* C25: the done channel of a blocking request gets exactly one message, the
\* requested page: it is sent only while the caller waits and the channel is
\* empty, every waiter of a page gets it when the page is ready, none arrives
\* after the caller has received; so the channel of capacity 1 is never full
\* at a send and the coordinator never blocks in a notification.
C25_OneNotification ==
    /\ [](coord # "blocked")
    /\ [](\A c \in Callers : /\ Len(doneC[c]) <= 1
                             /\ doneC[c] # <<>> => /\ pc[c] = "wait"
                                                   /\ doneC[c] = <<PageOf(pos[c])>>)
    /\ [][\A c \in Callers : Notified(c) => /\ doneC[c] = <<>>
                                            /\ pc'[c] = "wait"
                                            /\ NotifiedPage(c) = PageOf(pos[c])]_vars
    /\ [][\A p \in Pages : ReadyHandled(p) =>
              \A c \in Callers : WaitsFor(c, p) => doneC'[c] = <<p>>]_vars

\* one page-ready step has put the page into the done channels of both callers
C25_Witness ==
    \E p \in Pages : \A c \in Callers : pc[c] = "wait" /\ doneC[c] = <<p>>

\* the coordinator takes a request of caller c in this step
RequestStep(c) == pc[c] \in {"later1", "later2", "now"} /\ pc'[c] # pc[c]

\* the page of the request caller c sends next
ReqPage(c) == StagePage(pc[c], pos[c])

\* C26: handling a request for a resident page starts no load worker, makes
\* no in-flight entry and notifies the done channel, when there is one, in
\* the same step; handling any request leaves the resident set unchanged,
\* which only the handling of a page-ready message modifies.
C26_RequestFrame ==
    /\ [][\A c \in Callers : RequestStep(c) =>
              /\ pages' = pages
              /\ ReqPage(c) \in Range(pages) =>
                    /\ workers' = workers
                    /\ loading' = loading
                    /\ pageLoads' = pageLoads
                    /\ IF pc[c] = "now"
                       THEN doneC'[c] = <<ReqPage(c)>>
                       ELSE doneC' = doneC]_vars
    /\ [][pages' # pages => \E p \in Pages : ReadyHandled(p)]_vars

\* the blocking request for a resident page has been answered at once, no
\* load of that page being in flight
C26_Witness ==
    /\ hit[1]
    /\ pc[1] = "wait"
    /\ doneC[1] = <<PageOf(pos[1])>>
    /\ PageOf(pos[1]) \in Range(pages)
    /\ pageLoads[PageOf(pos[1])] = 1

\* the number of Load invocations in progress on item i
LoadsRunning(i) ==
    BagCardinality([w \in { v \in WorkerSet : v.kind = "load" /\ i \in v.run } |-> workers[w]])

\* the number of Unload invocations in progress on item i
UnloadsRunning(i) ==
    BagCardinality([w \in { v \in WorkerSet : v.kind = "unload" /\ i \in v.run } |-> workers[w]])

\* C27: without Free, at any moment at most one Load and at most one Unload
\* is in progress on an item.
C27_OneLoadOneUnload ==
    \A i \in Items : LoadsRunning(i) <= 1 /\ UnloadsRunning(i) <= 1

\* C28: without Free, no Unload of an item is in progress while a Load of the
\* same item is, and no load worker of a page is started while an unload
\* worker of that page runs.
C28_NoLoadDuringUnload ==
    /\ [](\A i \in Items : ~(LoadsRunning(i) >= 1 /\ UnloadsRunning(i) >= 1))
    /\ [][\A p \in Pages : LoadStarted(p) =>
              \A w \in WorkerSet : ~(w.kind = "unload" /\ w.page = p)]_vars

\* C29: every request the coordinator takes is for a page p with
\* 0 <= p < numPages, so every in-flight entry and every load or unload worker
\* is for such a page and works on a non-empty range of indices inside 0..n-1.
C29_RequestsInRange ==
    /\ [][\A c \in Callers : RequestStep(c) => 0 <= ReqPage(c) /\ ReqPage(c) < intCeil(n, pageSize)]_vars
    /\ [](InFlight \subseteq 0..(intCeil(n, pageSize) - 1))
    /\ [](\A w \in WorkerSet : /\ w.page \in 0..(intCeil(n, pageSize) - 1)
                               /\ w.todo \cup w.run \subseteq 0..(n - 1)
                               /\ w.page * pageSize < n)

\* the call on the last index, in a last page shorter than pageSize, has been
\* served and no worker remains
C29_Witness ==
    /\ pageSize = 2
    /\ TruncMod(n, pageSize) = 1
    /\ calls = n
    /\ Quiescent
    /\ res[1] = Found(n - 1)
    /\ pageLoads[numPages - 1] >= 1

\* index i is one of page p: p*pageSize <= i < min((p+1)*pageSize, n)
InPage(p, i) == p * pageSize <= i /\ i < (p + 1) * pageSize /\ 0 <= i /\ i < n

\* the indices of page p
PageRange(p) == { i \in 0..(n - 1) : InPage(p, i) }

\* the number of workers of the kind for page p that have not yet called
\* their operation on item i
Pending(kind, p, i) ==
    BagCardinality([w \in { v \in WorkerSet : v.kind = kind /\ v.page = p /\ i \in v.todo }
                       |-> workers[w]])

\* C30: a page worker calls its operation exactly once on each index of
\* p*pageSize .. min((p+1)*pageSize, n) - 1 and on no other index, the short
\* last page included; the pages partition the indices and i / pageSize is
\* the one page that contains i.
C30_PageRanges ==
    /\ \A w \in WorkerSet : \A i \in w.todo \cup w.run : InPage(w.page, i)
    /\ \A p \in 0..(intCeil(n, pageSize) - 1) : \A i \in 0..(n - 1) :
          /\ InPage(p, i) <=> p = PageOf(i)
          /\ InPage(p, i) => /\ loads[i] + Pending("load", p, i) = pageLoads[p]
                             /\ unloads[i] + Pending("unload", p, i) = evicts[p]

\* the load worker of a last page of one item, where pageSize is 2, has
\* called Load on that item, and a page of two items has been unloaded
C30_Witness ==
    /\ pageSize = 2
    /\ PageRange(numPages - 1) = {n - 1}
    /\ loads[n - 1] = 1
    /\ unloads[0] = 1 /\ unloads[1] = 1


\* the request channel has been closed by stopPreFetcher
Closed == fetchC = "closed"

\* the coordinator goroutine has returned from its loop
Exited == coord = "exit"

\* a load worker has finished loadPage and offers its page on the ready channel
ReadyOffered == \E w \in WorkerSet : w.kind = "load" /\ joined(w)

\* C31: after Free has closed the request channel the coordinator eventually
\* returns from its loop, also while page-ready messages are offered; once it
\* has returned it stays so, the resident set and the in-flight tracker never
\* change again and no waiter is notified.
C31_CoordinatorTerminates ==
    /\ Closed ~> Exited
    /\ [][Exited => /\ Exited'
                    /\ pages' = pages
                    /\ loading' = loading
                    /\ \A c \in Callers : ~Notified(c)]_vars

\* the coordinator has returned with pages resident while a load worker still
\* offers its page-ready message and its in-flight entry remains
C31_Witness ==
    /\ Exited
    /\ ReadyOffered
    /\ pages # <<>>
    /\ loading # <<>>

\* the pages of SpecStop
StopPages == 0..(intCeil(StopItems, StopPageSz) - 1)

\* C32: every load worker that is started eventually delivers its page-ready
\* message and ends, also one still running when Free is called with no At in
\* progress.
C32_LoadWorkersDeliver ==
    \A p \in StopPages : (LoadWorkers(p) # {}) ~> (LoadWorkers(p) = {})


\* done(page) is called in this step
DoneStep(page) == op' # op /\ op'.name = "done" /\ op'.page = page

\* C33: done(page) for a page without an in-flight entry fails fast: the
\* coordinator panics, no waiter is notified and the tracker is unchanged.
C33_DoneFailsFast ==
    [][\A p \in Pages : DoneStep(p) /\ ~isActive(loading, p)
                          => /\ coord' = "panic"
                             /\ loading' = loading
                             /\ \A c \in Callers : ~Notified(c)]_vars

====
